---- MODULE Spec2Model ----
(***************************************************************************)
(* A model of package hyperloglog (src/hyperloglog.go): the estimator      *)
(* record, New, Reset, Add, Count, Merge, Intersect, Serialize and         *)
(* Unserialize, driven by a caller that owns two estimator variables.      *)
(*                                                                         *)
(* Number representation.  TLC's integers are 32-bit signed, so            *)
(*  - a uint32 hash is a sequence of WordBits bits, most significant       *)
(*    first; shifts and the top-bit test of rho act on the bits;           *)
(*  - a float64 is a fixed-point number of FloatScale-ths (six decimal     *)
(*    digits); the estimate of Count is computed exactly as a quotient of  *)
(*    integers from that alpha;                                            *)
(*  - a Count outside the range the integers can carry (a register above   *)
(*    MaxCountRank, a NaN or infinite estimate) is returned as NoCount.    *)
(***************************************************************************)
EXTENDS Integers, Sequences, FiniteSets, TLC

VARIABLES est, out

vars == <<est, out>>

\* ------------------------------------------------------------- bounds

\* New is called with every register count in 0..MaxRegisters.
MaxRegisters == 4

\* Count is computed for registers up to this rank; above it the estimate
\* leaves the integers of the model and Count returns NoCount.
MaxCountRank == 5

\* The caller's estimator variables (h1 and h2 of Merge and Intersect).
Ests == {"h1", "h2"}

\* ------------------------------------------------- program constants

\* Width of the hash and of rho's word (uint32).
WordBits == 32

\* Width of a register (uint8): stored values are taken modulo 2^8.
RegisterBits == 8

\* Fixed-point unit of the model's float64 (alpha, DataObj.A).
FloatScale == 1000000

\* ---------------------------------------------------------- helpers

RECURSIVE Pow2(_)
Pow2(n) == IF n = 0 THEN 1 ELSE 2 * Pow2(n - 1)

RECURSIVE Pow10(_)
Pow10(n) == IF n = 0 THEN 1 ELSE 10 * Pow10(n - 1)

Max(a, b) == IF a >= b THEN a ELSE b

Zeros(n) == [i \in 1..n |-> 0]

\* uint8(x) for x >= 0.
Uint8(x) == x % Pow2(RegisterBits)

\* x & y on naturals.
RECURSIVE BitAnd(_, _)
BitAnd(x, y) ==
  IF x = 0 \/ y = 0 THEN 0
  ELSE 2 * BitAnd(x \div 2, y \div 2) + (IF x % 2 = 1 /\ y % 2 = 1 THEN 1 ELSE 0)

\* registers & (registers - 1) on uint: for registers = 0 the subtraction
\* wraps to the all-ones word, and 0 & anything is 0.
AndWithPredecessor(registers) ==
  IF registers = 0 THEN 0 ELSE BitAnd(registers, registers - 1)

\* ------------------------------------------------------------- words

\* The 32-bit word whose leading bits are prefix and whose other bits are 0.
Word(prefix) == prefix \o Zeros(WordBits - Len(prefix))

\* The hashes Add is called with: for m = 4 one hash of rank 1 for each
\* register; for m = 2 and m = 1 they have the ranks 1, 2 and 3.
HashPrefixes == {<<0, 0, 1>>, <<0, 1, 1>>, <<1, 0, 1>>, <<1, 1, 1>>}

HashSamples == {Word(p) : p \in HashPrefixes}

\* val << n on uint32 (a shift by 32 or more gives 0).
ShiftLeft(val, n) ==
  [i \in 1..WordBits |-> IF i + n <= WordBits THEN val[i + n] ELSE 0]

\* The number a sequence of bits denotes, most significant bit first.
RECURSIVE BitsValue(_)
BitsValue(bits) ==
  IF bits = <<>> THEN 0
  ELSE 2 * BitsValue(SubSeq(bits, 1, Len(bits) - 1)) + bits[Len(bits)]

\* val >> n on uint32 (a shift by 32 or more gives 0).
ShiftRight(val, n) ==
  IF n >= WordBits THEN 0 ELSE BitsValue(SubSeq(val, 1, WordBits - n))

\* -------------------------------------------------------- estimator

\* The nil *HyperLogLog.
Nil == [nil |-> TRUE]

\* get_alpha, in FloatScale-ths, rounded down.
\* 0.7213 / (1 + 1.079/m) = 0.7213 * 1000m / (1000m + 1079)
\*                        = 0.7213 - 0.7213 * 1079 / (1000m + 1079);
\* the second form keeps the products inside 32 bits, and its value for
\* m = 0 is the 0 that 0.7213 / (1 + Inf) is.
get_alpha(m) ==
  LET den == 1000 * m + 1079
  IN  CASE m = 16 -> 673000
        [] m = 32 -> 697000
        [] m = 64 -> 709000
        [] OTHER  -> 721300 - ((721300 * 1079 + den - 1) \div den)

\* ceil(log2(registers)) for registers >= 1.
RECURSIVE CeilLog2(_)
CeilLog2(n) == IF n <= 1 THEN 0 ELSE 1 + CeilLog2((n + 1) \div 2)

\* uint32(math.Ceil(math.Log2(0))) converts -Inf, which no uint32 represents:
\* Go leaves the result implementation-dependent.
UndefinedIndexBits == {0, 1}

IndexBits(registers) ==
  IF registers = 0 THEN UndefinedIndexBits ELSE {CeilLog2(registers)}

\* The estimator New builds once the power-of-two test has passed.
NewEstimator(registers, b) ==
  [m |-> registers, b |-> b, alpha |-> get_alpha(registers),
   registers |-> Zeros(registers)]

\* rho: the loop of lines 126-129, then uint8(r).
RECURSIVE rhoLoop(_, _, _)
rhoLoop(val, r, max) ==
  IF val[1] = 0 /\ r <= max
    THEN rhoLoop(ShiftLeft(val, 1), r + 1, max)
    ELSE r

\* rho with the loop bound off by one (r < max for r <= max).
RECURSIVE rhoLoopStrict(_, _, _)
rhoLoopStrict(val, r, max) ==
  IF val[1] = 0 /\ r < max
    THEN rhoLoopStrict(ShiftLeft(val, 1), r + 1, max)
    ELSE r

rhoStrictBound(val, max) == Uint8(rhoLoopStrict(val, 1, max))

rho(val, max) == Uint8(rhoLoop(val, 1, max))

\* Lines 145-147 without the comparison: the rank is always stored.
StoreAlways(h, r, j) ==
  IF j >= Len(h.registers)
    THEN [h |-> h, panic |-> TRUE]
    ELSE [h |-> [h EXCEPT !.registers[j + 1] = r], panic |-> FALSE]

\* Lines 145-147: registers[j] is raised to r; an index out of range is a
\* run-time panic.
StoreRank(h, r, j) ==
  IF j >= Len(h.registers)
    THEN [h |-> h, panic |-> TRUE]
    ELSE [h |-> IF r > h.registers[j + 1]
                  THEN [h EXCEPT !.registers[j + 1] = r]
                  ELSE h,
          panic |-> FALSE]

\* Add on estimator h: the estimator afterwards and whether it panicked.
\* k = 32 - h.b is a uint32 subtraction; h.b <= 32 in every state of the model.
AddTo(h, val) ==
  StoreRank(h, rho(ShiftLeft(val, h.b), WordBits - h.b),
            ShiftRight(val, WordBits - h.b))

\* ------------------------------------------------------------ Count

\* What Count returns: a uint64, or NoCount where the model cannot carry it.
Counted(n) == [ok |-> TRUE, n |-> n]

NoCount == [ok |-> FALSE, n |-> 0]

\* math.Log of 1, 2, 3, ..., in FloatScale-ths, rounded down.
LnMicro == <<0, 693147, 1098612, 1386294, 1609437>>

MaxRegister(registers) ==
  CHOOSE x \in {registers[i] : i \in DOMAIN registers} :
    \A i \in DOMAIN registers : registers[i] <= x

\* The sum of 2^(top - registers[i]) over the first n registers: the sum
\* of line 155 multiplied by 2^top.
RECURSIVE ScaledSum(_, _, _)
ScaledSum(registers, n, top) ==
  IF n = 0 THEN 0
  ELSE ScaledSum(registers, n - 1, top) + Pow2(top - registers[n])

\* v of lines 160-165: the registers that are zero.
ZeroRegisters(registers) ==
  Cardinality({i \in DOMAIN registers : registers[i] = 0})

\* Whether the integers of the model carry the estimate of h exactly.
CountInRange(h) ==
  /\ h.m >= 1
  /\ h.m <= Len(LnMicro)
  /\ Len(h.registers) >= 1
  /\ Len(h.registers) <= h.m
  /\ \A i \in DOMAIN h.registers : h.registers[i] <= MaxCountRank

\* The branch of Count that decides the estimate of h (h in range).
\* With top the largest register and S = sum * 2^top, the raw estimate is
\* E = num / den for num = alpha * m * m * 2^top and den = FloatScale * S.
\*   E <= 5/2 * m        iff  2 * alpha * m * 2^top <= 5 * FloatScale * S
\*   E > 1/30 * 2^32 (= 143165576.53...) once the quotient num / den
\*   reaches 143165577; below MaxCountRank E stays far under either.
CountBranch(h) ==
  LET top == MaxRegister(h.registers)
      S   == ScaledSum(h.registers, Len(h.registers), top)
      num == h.alpha * h.m * h.m * Pow2(top)
      den == FloatScale * S
  IN  IF 2 * h.alpha * h.m * Pow2(top) <= 5 * den
        THEN IF ZeroRegisters(h.registers) > 0 THEN "linear" ELSE "raw"
        ELSE IF num \div den >= 143165577 THEN "large" ELSE "raw"

\* Count: the estimate truncated to uint64.
Count(h) ==
  IF ~CountInRange(h) THEN NoCount
  ELSE
    LET top == MaxRegister(h.registers)
        S   == ScaledSum(h.registers, Len(h.registers), top)
        num == h.alpha * h.m * h.m * Pow2(top)
        den == FloatScale * S
        v   == ZeroRegisters(h.registers)
    IN  CASE CountBranch(h) = "linear" ->
               Counted((h.m * (LnMicro[h.m] - LnMicro[v])) \div FloatScale)
          [] CountBranch(h) = "raw"    -> Counted(num \div den)
          [] OTHER                     -> NoCount

\* ------------------------------------------------------------ Merge

\* The loop of lines 184-188 from register j on: h1's registers afterwards
\* and whether h1.registers[j] was out of range.
RECURSIVE MergeLoop(_, _, _)
MergeLoop(regs1, regs2, j) ==
  IF j > Len(regs2) THEN [registers |-> regs1, panic |-> FALSE]
  ELSE IF j > Len(regs1) THEN [registers |-> regs1, panic |-> TRUE]
  ELSE MergeLoop(IF regs2[j] > regs1[j] THEN [regs1 EXCEPT ![j] = regs2[j]]
                                        ELSE regs1,
                 regs2, j + 1)

\* Merge without the comparison of line 185: h2's registers are copied.
MergeOverwrite(h1, h2) ==
  IF h1.m # h2.m
    THEN [h |-> h1, err |-> "registers mismatch", panic |-> FALSE]
    ELSE [h |-> [h1 EXCEPT !.registers =
                   [i \in DOMAIN h1.registers |->
                      IF i <= Len(h2.registers) THEN h2.registers[i]
                                                ELSE h1.registers[i]]],
          err |-> "", panic |-> Len(h2.registers) > Len(h1.registers)]

\* Merge with the test of line 180 after the loop: the registers are
\* written before the mismatch is reported.
MergeBeforeCheck(h1, h2) ==
  LET l == MergeLoop(h1.registers, h2.registers, 1)
  IN  [h |-> [h1 EXCEPT !.registers = l.registers],
       err |-> IF h1.m # h2.m THEN "registers mismatch" ELSE "",
       panic |-> l.panic]

\* h1.Merge(h2): h1 afterwards, the error and whether it panicked.
MergeInto(h1, h2) ==
  IF h1.m # h2.m
    THEN [h |-> h1, err |-> "registers mismatch", panic |-> FALSE]
    ELSE LET l == MergeLoop(h1.registers, h2.registers, 1)
         IN  [h |-> [h1 EXCEPT !.registers = l.registers],
              err |-> "", panic |-> l.panic]

\* -------------------------------------------------------- Intersect

\* cumulativeCount and the result of lines 214-224 on uint64.
IntersectCount(unionCount, c1, c2) ==
  IF ~(unionCount.ok /\ c1.ok /\ c2.ok) THEN NoCount
  ELSE LET cumulativeCount == c1.n + c2.n
       IN  IF unionCount.n > cumulativeCount
             THEN Counted(0)
             ELSE Counted(cumulativeCount - unionCount.n)

\* h1.Intersect(h2), with b the index bits New gives the merged estimator.
IntersectOf(h1, h2, b) ==
  IF h1.m # h2.m
    THEN [count |-> Counted(0), err |-> "registers mismatch", panic |-> FALSE]
  ELSE IF AndWithPredecessor(h1.m) # 0
    THEN [count |-> Counted(0), err |-> "not a power of two", panic |-> FALSE]
  ELSE
    LET merged == NewEstimator(h1.m, b)
        u1     == MergeInto(merged, h1)
        u2     == MergeInto(u1.h, h2)
    IN  IF u1.panic \/ u2.panic
          THEN [count |-> NoCount, err |-> "", panic |-> TRUE]
          ELSE [count |-> IntersectCount(Count(u2.h), Count(h1), Count(h2)),
                err |-> "", panic |-> FALSE]

\* ---------------------------------------------------- serialization

\* A text is a sequence of characters.
DigitChars == <<"0", "1", "2", "3", "4", "5", "6", "7", "8", "9">>

IsDigit(c) == \E d \in DOMAIN DigitChars : DigitChars[d] = c

DigitOf(c) == (CHOOSE d \in DOMAIN DigitChars : DigitChars[d] = c) - 1

\* The decimal digits of an unsigned integer, as encoding/json writes it.
RECURSIVE FormatUint(_)
FormatUint(n) ==
  IF n < 10 THEN <<DigitChars[n + 1]>>
  ELSE FormatUint(n \div 10) \o <<DigitChars[(n % 10) + 1]>>

\* The digits of a fraction of FloatScale-ths with `width` digits left to
\* write, without the trailing zeros.
RECURSIVE FormatFraction(_, _)
FormatFraction(frac, width) ==
  IF frac = 0 THEN <<>>
  ELSE <<DigitChars[(frac \div (width \div 10)) + 1]>>
         \o FormatFraction(frac % (width \div 10), width \div 10)

\* A float64 as encoding/json writes it: the shortest decimal that reads
\* back as the same number.
FormatFloat(x) ==
  IF x % FloatScale = 0 THEN FormatUint(x \div FloatScale)
  ELSE FormatUint(x \div FloatScale) \o <<".">>
         \o FormatFraction(x % FloatScale, FloatScale)

\* An array written without the separating commas.
RECURSIVE FormatIntsNoComma(_)
FormatIntsNoComma(ints) ==
  IF ints = <<>> THEN <<>>
  ELSE FormatUint(ints[1]) \o FormatIntsNoComma(Tail(ints))

RECURSIVE FormatInts(_)
FormatInts(ints) ==
  IF ints = <<>> THEN <<>>
  ELSE IF Len(ints) = 1 THEN FormatUint(ints[1])
  ELSE FormatUint(ints[1]) \o <<",">> \o FormatInts(Tail(ints))

\* SerializeData: the DataObj of h (int(v) of a uint8 is v).
SerializeData(h) ==
  [M |-> h.m, B |-> h.b, A |-> h.alpha,
   R |-> [i \in DOMAIN h.registers |-> h.registers[i]]]

\* json.Marshal of a DataObj.
Marshal(d) ==
  <<"{", "\"", "M", "\"", ":">> \o FormatUint(d.M)
    \o <<",", "\"", "B", "\"", ":">> \o FormatUint(d.B)
    \o <<",", "\"", "A", "\"", ":">> \o FormatFloat(d.A)
    \o <<",", "\"", "R", "\"", ":", "[">> \o FormatInts(d.R) \o <<"]", "}">>

\* Serialize: Marshal fails only on a NaN or infinite A, which the
\* fixed-point alpha of the model never is.
Serialize(h) == Marshal(SerializeData(h))

\* Whether the characters of lit stand in txt from position pos on.
HasAt(txt, pos, lit) ==
  /\ pos + Len(lit) - 1 <= Len(txt)
  /\ SubSeq(txt, pos, pos + Len(lit) - 1) = lit

\* The first position from pos on that holds no digit.
RECURSIVE DigitsEnd(_, _)
DigitsEnd(txt, pos) ==
  IF pos <= Len(txt) /\ IsDigit(txt[pos]) THEN DigitsEnd(txt, pos + 1) ELSE pos

\* The number the digits txt[from..to-1] denote.
RECURSIVE ParseDigits(_, _, _)
ParseDigits(txt, from, to) ==
  IF to <= from THEN 0
  ELSE 10 * ParseDigits(txt, from, to - 1) + DigitOf(txt[to - 1])

ParseFailure == [ok |-> FALSE, value |-> 0, next |-> 0]

Parsed(value, next) == [ok |-> TRUE, value |-> value, next |-> next]

\* An unsigned integer at pos: its value and the position after it.
ParseUintTo(txt, pos, end) ==
  IF end = pos THEN ParseFailure ELSE Parsed(ParseDigits(txt, pos, end), end)

ParseUint(txt, pos) == ParseUintTo(txt, pos, DigitsEnd(txt, pos))

\* The fraction digits txt[from..end-1] added to the integer part; a
\* fraction longer than the model's six digits is beyond it.
ParseFractionTo(txt, int, from, end) ==
  IF end = from \/ Pow10(end - from) > FloatScale THEN ParseFailure
  ELSE Parsed(int.value * FloatScale
                + ParseDigits(txt, from, end) * (FloatScale \div Pow10(end - from)),
              end)

\* A float at pos, digits [. digits], in FloatScale-ths.
ParseFloatAfter(txt, int) ==
  IF ~int.ok THEN ParseFailure
  ELSE IF ~HasAt(txt, int.next, <<".">>)
    THEN Parsed(int.value * FloatScale, int.next)
  ELSE ParseFractionTo(txt, int, int.next + 1, DigitsEnd(txt, int.next + 1))

ParseFloat(txt, pos) == ParseFloatAfter(txt, ParseUint(txt, pos))

\* The integers of a JSON array from pos on, pos being just after "[" or
\* ",": the values and the position after the closing "]".
RECURSIVE ParseInts(_, _, _)
ParseIntsRest(n, rest) ==
  IF ~rest.ok THEN ParseFailure
  ELSE Parsed(<<n.value>> \o rest.value, rest.next)

ParseIntsAfter(txt, n) ==
  IF ~n.ok THEN ParseFailure
  ELSE IF HasAt(txt, n.next, <<"]">>) THEN Parsed(<<n.value>>, n.next + 1)
  ELSE IF HasAt(txt, n.next, <<",">>)
    THEN ParseIntsRest(n, ParseInts(txt, n.next + 1, FALSE))
  ELSE ParseFailure

ParseInts(txt, pos, first) ==
  IF first /\ HasAt(txt, pos, <<"]">>) THEN Parsed(<<>>, pos + 1)
  ELSE ParseIntsAfter(txt, ParseUint(txt, pos))

NoData == [ok |-> FALSE, M |-> 0, B |-> 0, A |-> 0, R |-> <<>>]

\* json.Unmarshal into a DataObj, for texts of the shape Marshal writes
\* ({"M":uint,"B":uint,"A":float,"R":[int,...]}); any other text is a
\* syntax error.  ok is err == nil.
UnmarshalEnd(txt, M, B, A, R) ==
  IF ~(R.ok /\ HasAt(txt, R.next, <<"}">>) /\ R.next = Len(txt)) THEN NoData
  ELSE [ok |-> TRUE, M |-> M.value, B |-> B.value, A |-> A.value, R |-> R.value]

UnmarshalR(txt, M, B, A) ==
  IF ~(A.ok /\ HasAt(txt, A.next, <<",", "\"", "R", "\"", ":", "[">>)) THEN NoData
  ELSE UnmarshalEnd(txt, M, B, A, ParseInts(txt, A.next + 6, TRUE))

UnmarshalA(txt, M, B) ==
  IF ~(B.ok /\ HasAt(txt, B.next, <<",", "\"", "A", "\"", ":">>)) THEN NoData
  ELSE UnmarshalR(txt, M, B, ParseFloat(txt, B.next + 5))

UnmarshalB(txt, M) ==
  IF ~(M.ok /\ HasAt(txt, M.next, <<",", "\"", "B", "\"", ":">>)) THEN NoData
  ELSE UnmarshalA(txt, M, ParseUint(txt, M.next + 5))

Unmarshal(txt) ==
  IF ~HasAt(txt, 1, <<"{", "\"", "M", "\"", ":">>) THEN NoData
  ELSE UnmarshalB(txt, ParseUint(txt, 6))

\* The DataObj loaded into h (lines 68-77): reg[i] = uint8(v).
Load(h, d) ==
  IF ~d.ok THEN [h |-> h, failed |-> TRUE]
  ELSE [h |-> [m |-> d.M, b |-> d.B, alpha |-> d.A,
               registers |-> [i \in DOMAIN d.R |-> Uint8(d.R[i])]],
        failed |-> FALSE]

\* Unserialize on h: h afterwards (unchanged when Unmarshal fails) and
\* whether it failed.
UnserializeInto(h, str) == Load(h, Unmarshal(str))

\* Texts a caller hands to Unserialize that Serialize did not write: a
\* truncated one, one whose array is shorter than M and holds a value
\* above 255, and one whose M is no power of two.
CraftedTexts ==
  { <<"{", "\"", "M", "\"", ":">>,
    <<"{", "\"", "M", "\"", ":", "4", ",", "\"", "B", "\"", ":", "2", ",",
      "\"", "A", "\"", ":", "0", ".", "5", "6", "8", "0", "6", "4", ",",
      "\"", "R", "\"", ":", "[", "2", "5", "7", "]", "}">>,
    <<"{", "\"", "M", "\"", ":", "3", ",", "\"", "B", "\"", ":", "0", ",",
      "\"", "A", "\"", ":", "0", ".", "5", "3", "0", "4", "9", "7", ",",
      "\"", "R", "\"", ":", "[", "3", ",", "3", ",", "3", "]", "}">> }

\* ------------------------------------------------------ state machine

\* est: the caller's estimator variables, Nil before New has filled one.
\* out: the last call: which operation, on which variables (recv the
\*      receiver, other the argument), with which register count n (New)
\*      or hash (Add), and how it ended (err the error it returned, panic
\*      a run-time panic, which ends the process).

NoOut ==
  [op |-> "none", recv |-> "none", other |-> "none", n |-> 0, hash |-> <<>>,
   err |-> "", panic |-> FALSE]

Called(op, recv, other, err, panic) ==
  [NoOut EXCEPT !.op = op, !.recv = recv, !.other = other, !.err = err,
                !.panic = panic]

Running == ~out.panic

Init ==
  /\ est = [e \in Ests |-> Nil]
  /\ out = NoOut

\* h, err := New(registers); on success h is assigned to the variable e,
\* on failure h is nil and e keeps its estimator.
New(e, registers, b) ==
  /\ Running
  /\ IF AndWithPredecessor(registers) # 0
       THEN /\ est' = est
            /\ out' = [Called("New", e, "none", "not a power of two", FALSE)
                         EXCEPT !.n = registers]
       ELSE /\ est' = [est EXCEPT ![e] = NewEstimator(registers, b)]
            /\ out' = [Called("New", e, "none", "", FALSE) EXCEPT !.n = registers]

\* est[e].Reset()
Reset(e) ==
  /\ Running
  /\ est[e] # Nil
  /\ est' = [est EXCEPT ![e].registers = Zeros(est[e].m)]
  /\ out' = Called("Reset", e, "none", "", FALSE)

\* est[e].Add(val)
Add(e, val) ==
  /\ Running
  /\ est[e] # Nil
  /\ \E r \in {AddTo(est[e], val)} :
       /\ est' = [est EXCEPT ![e] = r.h]
       /\ out' = [Called("Add", e, "none", "", r.panic) EXCEPT !.hash = val]

\* est[e].Count(); it returns Count(est[e]).
CountCall(e) ==
  /\ Running
  /\ est[e] # Nil
  /\ est' = est
  /\ out' = Called("Count", e, "none", "", FALSE)

\* est[a].Merge(est[b]); a and b may be the same variable.
Merge(a, b) ==
  /\ Running
  /\ est[a] # Nil
  /\ est[b] # Nil
  /\ \E r \in {MergeInto(est[a], est[b])} :
       /\ est' = [est EXCEPT ![a] = r.h]
       /\ out' = Called("Merge", a, b, r.err, r.panic)

\* est[a].Intersect(est[b]); it returns IntersectOf(est[a], est[b], mb).count.
Intersect(a, b, mb) ==
  /\ Running
  /\ est[a] # Nil
  /\ est[b] # Nil
  /\ est' = est
  /\ \E r \in {IntersectOf(est[a], est[b], mb)} :
       out' = Called("Intersect", a, b, r.err, r.panic)

\* est[e].Serialize(); it returns Serialize(est[e]).
SerializeCall(e) ==
  /\ Running
  /\ est[e] # Nil
  /\ est' = est
  /\ out' = Called("Serialize", e, "none", "", FALSE)

\* est[e].Unserialize(str) of a crafted text.
UnserializeCrafted(e, str) ==
  /\ Running
  /\ est[e] # Nil
  /\ \E r \in {UnserializeInto(est[e], str)} :
       /\ est' = [est EXCEPT ![e] = r.h]
       /\ out' = Called("Unserialize", e, "none",
                        IF r.failed THEN "syntax error" ELSE "", FALSE)

\* est[e].Unserialize(str) of the text that the last call, a Serialize of
\* est[out.recv], returned.
UnserializeSerialized(e) ==
  /\ Running
  /\ est[e] # Nil
  /\ out.op = "Serialize"
  /\ \E r \in {UnserializeInto(est[e], Serialize(est[out.recv]))} :
       /\ est' = [est EXCEPT ![e] = r.h]
       /\ out' = Called("Unserialize", e, out.recv,
                        IF r.failed THEN "syntax error" ELSE "", FALSE)

Next ==
  \/ \E e \in Ests, registers \in 0..MaxRegisters :
       \E b \in IndexBits(registers) : New(e, registers, b)
  \/ \E e \in Ests : Reset(e)
  \/ \E e \in Ests, val \in HashSamples : Add(e, val)
  \/ \E e \in Ests : CountCall(e)
  \/ \E a \in Ests, b \in Ests : Merge(a, b)
  \/ \E a \in {e \in Ests : est[e] # Nil}, b \in Ests :
       \E mb \in IndexBits(est[a].m) : Intersect(a, b, mb)
  \/ \E e \in Ests : SerializeCall(e)
  \/ \E e \in Ests, str \in CraftedTexts : UnserializeCrafted(e, str)
  \/ \E e \in Ests : UnserializeSerialized(e)

Spec == Init /\ [][Next]_vars

\* ------------------------------------------ Add as a function of its inputs

\* New is called with every register count in 0..MaxAddRegisters.
MaxAddRegisters == 16

OneBit(p) == [i \in 1..WordBits |-> IF i = p THEN 1 ELSE 0]

\* The hashes of AddSpec: words with a single bit set, among the highest
\* bits (the index, the low ranks) or the lowest (the last ranks before
\* the clamp); the zero word (the clamp); the all-ones word.
AddBitPositions == {1, 2, 3, 4, 5, 6, 31, 32}

AddHashes ==
  {OneBit(p) : p \in AddBitPositions}
    \cup {Zeros(WordBits), [i \in 1..WordBits |-> 1]}

AddNext ==
  \/ \E registers \in 0..MaxAddRegisters :
       \E b \in IndexBits(registers) : New("h1", registers, b)
  \/ \E val \in AddHashes : Add("h1", val)

\* One estimator, built by New and updated by Add alone.
AddSpec == Init /\ [][AddNext]_vars

\* ------------------------------------------------------------ claims

\* n = 2^k for some k >= 0.
IsPowerOfTwo(n) == \E k \in 0..n : Pow2(k) = n

\* The estimators New builds for a power-of-two register count, whatever
\* Add, Merge and Reset then did to their registers.
WellFormed(h) ==
  /\ h # Nil
  /\ IsPowerOfTwo(h.m)
  /\ Pow2(h.b) = h.m
  /\ h.alpha = get_alpha(h.m)
  /\ Len(h.registers) = h.m

\* The number whose b binary digits are the top b bits of val.
TopBits(val, b) ==
  CHOOSE j \in 0..(Pow2(b) - 1) :
    \A i \in 1..b : (j \div Pow2(b - i)) % 2 = val[i]

\* The leading zero bits among the bits of val after the top b.
LeadingZeros(val, b) ==
  IF \A i \in (b + 1)..WordBits : val[i] = 0 THEN WordBits - b
  ELSE (CHOOSE i \in (b + 1)..WordBits :
          val[i] = 1 /\ \A l \in (b + 1)..(i - 1) : val[l] = 0) - (b + 1)

\* C1: on an estimator built by New with a power-of-two register count,
\* Add(h) does not fail and sets registers[j] to max(old registers[j], r),
\* j being the top b bits of h and r the leading zeros of the other 32 - b
\* bits plus one, which lies in 1..32-b+1; every other register, m, b,
\* alpha and the other estimator stay as they were.
C1_AddStoresMaxRank ==
  [][(out'.op = "Add" /\ IsPowerOfTwo(est[out'.recv].m)) =>
       LET h == est[out'.recv]
           j == TopBits(out'.hash, h.b)
           r == LeadingZeros(out'.hash, h.b) + 1
       IN  /\ ~out'.panic
           /\ r \in 1..(WordBits - h.b + 1)
           /\ est' = [est EXCEPT ![out'.recv].registers[j + 1] =
                                   Max(h.registers[j + 1], r)]]_vars

\* An Add of the zero word on a 16-register estimator stored the clamp,
\* 32 - 4 + 1 = 29, in register 0, next to a register an earlier Add
\* raised.
C1_Witness ==
  /\ out.op = "Add"
  /\ ~out.panic
  /\ out.hash = Zeros(WordBits)
  /\ est["h1"] # Nil
  /\ est["h1"].m = 16
  /\ est["h1"].registers[1] = WordBits - est["h1"].b + 1
  /\ est["h1"].registers[16] = 1

\* C2: New fails and returns no estimator for every register count that is
\* no power of two, 0 included, and builds an estimator with all registers
\* zero for every power of two.
C2_NewRejectsNonPowersOfTwo ==
  [][out'.op = "New" =>
       IF IsPowerOfTwo(out'.n)
         THEN /\ out'.err = ""
              /\ est'[out'.recv] # Nil
              /\ est'[out'.recv].m = out'.n
              /\ est'[out'.recv].registers = Zeros(out'.n)
         ELSE /\ out'.err # ""
              /\ est' = est]_vars

\* C5: a Merge of two estimators whose register counts differ returns an
\* error, does not panic, and leaves both estimators as they were.
C5_MergeMismatchChangesNothing ==
  [][(out'.op = "Merge" /\ est[out'.recv].m # est[out'.other].m) =>
       /\ out'.err # ""
       /\ ~out'.panic
       /\ est' = est]_vars

\* A Merge of a 4-register estimator whose registers are set into a
\* 2-register estimator whose registers are zero returned the error.
C5_Witness ==
  /\ out.op = "Merge"
  /\ out.err # ""
  /\ est[out.recv].m = 2
  /\ est[out.other].m = 4
  /\ est[out.recv].registers = <<0, 0>>
  /\ est[out.other].registers = <<1, 1, 1, 1>>

\* C7: Add never panics: the register index it computes is in range.
C7_AddNeverPanics == out.op = "Add" => ~out.panic

\* C9: the register array of every estimator is as long as its register
\* count.
C9_LengthIsRegisterCount ==
  \A e \in Ests : est[e] # Nil => Len(est[e].registers) = est[e].m

\* Count(x) >= Count(y), where the model carries both.
CountAtLeast(x, y) ==
  (Count(x).ok /\ Count(y).ok) => Count(x).n >= Count(y).n

\* A Merge step of well-formed estimators of one register count.
MergeOfWellFormed ==
  /\ out'.op = "Merge"
  /\ WellFormed(est[out'.recv])
  /\ WellFormed(est[out'.other])
  /\ est[out'.recv].m = est[out'.other].m

\* C3, as claimed: after A.Merge(B), A.Count() is at least the Count() A
\* had before and at least B.Count().
C3_MergeNeverLowersCount ==
  [][MergeOfWellFormed =>
       /\ CountAtLeast(est'[out'.recv], est[out'.recv])
       /\ CountAtLeast(est'[out'.recv], est[out'.other])]_vars

\* C3, amended: after A.Merge(B), A.Count() is at least the Count() A had
\* before when the same branch of Count (linear counting, or the raw
\* estimate) computes both, and at least B.Count() when the same branch
\* computes both.
C3_MergeKeepsCountWithinBranch ==
  [][MergeOfWellFormed =>
       /\ CountBranch(est'[out'.recv]) = CountBranch(est[out'.recv])
            => CountAtLeast(est'[out'.recv], est[out'.recv])
       /\ CountBranch(est'[out'.recv]) = CountBranch(est[out'.other])
            => CountAtLeast(est'[out'.recv], est[out'.other])]_vars

\* A Merge raised a register of a 2-register estimator above that of its
\* argument; Count of both is the raw estimate, and the receiver's is the
\* larger.
C3_Witness ==
  /\ out.op = "Merge"
  /\ out.err = ""
  /\ out.recv # out.other
  /\ WellFormed(est[out.recv])
  /\ WellFormed(est[out.other])
  /\ est[out.recv].registers = <<2, 1>>
  /\ est[out.other].registers = <<1, 1>>
  /\ CountBranch(est[out.recv]) = "raw"
  /\ CountBranch(est[out.other]) = "raw"
  /\ Count(est[out.recv]).n > Count(est[out.other]).n

\* C4: for estimators of one register count, A.Merge(B) does not fail and
\* leaves A with the registers B.Merge(A) leaves B with, leaves B as it
\* was, changes nothing when repeated, and changes nothing when A is B.
C4_MergeCommutesAndIsIdempotent ==
  [][(out'.op = "Merge" /\ est[out'.recv].m = est[out'.other].m) =>
       /\ out'.err = ""
       /\ ~out'.panic
       /\ est'[out'.recv].registers
            = MergeInto(est[out'.other], est[out'.recv]).h.registers
       /\ \A e \in Ests \ {out'.recv} : est'[e] = est[e]
       /\ MergeInto(est'[out'.recv], est'[out'.other]).h = est'[out'.recv]
       /\ out'.recv = out'.other => est' = est]_vars

\* Register i of h, 0 where h has none.
RegisterAt(h, i) == IF i \in DOMAIN h.registers THEN h.registers[i] ELSE 0

\* The inclusion-exclusion value of h1 and h2: the Count of a fresh
\* estimator that holds the pointwise maximum of both register arrays,
\* subtracted from the sum of both Counts, and 0 where that is negative.
InclusionExclusion(h1, h2) ==
  LET union == [m |-> h1.m, b |-> h1.b, alpha |-> get_alpha(h1.m),
                registers |-> [i \in 1..h1.m |->
                                 Max(RegisterAt(h1, i), RegisterAt(h2, i))]]
  IN  IF ~(Count(union).ok /\ Count(h1).ok /\ Count(h2).ok) THEN NoCount
      ELSE IF Count(union).n > Count(h1).n + Count(h2).n THEN Counted(0)
      ELSE Counted(Count(h1).n + Count(h2).n - Count(union).n)

\* C6: for estimators of one register count, Intersect returns no error
\* and the inclusion-exclusion value, which is 0 when the union count
\* exceeds the sum of both counts.
C6_IntersectIsInclusionExclusion ==
  [][(out'.op = "Intersect" /\ est[out'.recv].m = est[out'.other].m) =>
       /\ out'.err = ""
       /\ ~out'.panic
       /\ \A mb \in IndexBits(est[out'.recv].m) :
            IntersectOf(est[out'.recv], est[out'.other], mb).count
              = InclusionExclusion(est[out'.recv], est[out'.other])]_vars

\* C8: Unserialize of the text Serialize returned for a source estimator
\* does not fail, leaves the target with the m, b, alpha and registers of
\* the source, and leaves every other estimator, the source among them,
\* as it was.
C8_SerializeUnserializeRoundTrip ==
  [][(out'.op = "Unserialize" /\ out'.other # "none") =>
       /\ out'.err = ""
       /\ est'[out'.recv] = est[out'.other]
       /\ \A e \in Ests \ {out'.recv} : est'[e] = est[e]]_vars

\* An Unserialize of the text of another estimator, one with 4 registers
\* of which two are set, left the target equal to it.
C8_Witness ==
  /\ out.op = "Unserialize"
  /\ out.other # "none"
  /\ out.other # out.recv
  /\ out.err = ""
  /\ est[out.other].m = 4
  /\ est[out.other].alpha = get_alpha(4)
  /\ est[out.other].registers = <<1, 0, 1, 0>>
  /\ est[out.recv] = est[out.other]

\* No register of an estimator is lowered by the step, and none is lost.
RegistersNotLowered ==
  \A e \in Ests :
    (est[e] # Nil /\ est'[e] # Nil) =>
      \A i \in DOMAIN est[e].registers :
        /\ i \in DOMAIN est'[e].registers
        /\ est'[e].registers[i] >= est[e].registers[i]

\* C10, as claimed: every Add, Merge, Count, Intersect, Serialize and
\* Unserialize leaves each register at least as large as it was.
C10_OnlyResetLowersRegisters ==
  [][out'.op \in {"Add", "Merge", "Count", "Intersect", "Serialize", "Unserialize"}
       => RegistersNotLowered]_vars

\* C10, amended: every Add, Merge, Count, Intersect and Serialize leaves
\* each register at least as large as it was; Reset and Unserialize may
\* lower registers.
C10_OnlyResetAndUnserializeLowerRegisters ==
  [][out'.op \in {"Add", "Merge", "Count", "Intersect", "Serialize"}
       => RegistersNotLowered]_vars

\* An Add of a hash of rank 1 left a register that held the rank 2 as it
\* was.
C10_Witness ==
  /\ out.op = "Add"
  /\ ~out.panic
  /\ out.hash = Word(<<0, 1, 1>>)
  /\ est[out.recv].m = 2
  /\ est[out.recv].registers = <<2, 0>>

====
